---- MODULE Spec2Model ----
(***************************************************************************)
(* A model of timeloss.run's LiveSplit engine, src/utils/parse-livesplit.ts *)
(* parseTimestamp, assignIDsToSegments, calculateAttemptDuration,          *)
(* parseLivesplitDocument and calculatePercentiles.                        *)
(*                                                                         *)
(* A text (an element's textContent, an attribute) is a sequence of        *)
(* one-character strings.  A JavaScript number is a record: Num(v) for an  *)
(* integer, NaN, NegInf for -Infinity; Null is the null of                 *)
(* Record<string, number | null>.  A JavaScript object is the sequence of  *)
(* its values in Object.values order.                                      *)
(***************************************************************************)
EXTENDS Integers, Sequences, FiniteSets, TLC

VARIABLES doc, uuidCount, outs, pct, tok, tsOut, att, durOut, page

vars == <<doc, uuidCount, outs, pct, tok, tsOut, att, durOut, page>>

----------------------------------------------------------------------------
(* JavaScript numbers *)

Num(v) == [k |-> "num", v |-> v]
NaN == [k |-> "nan", v |-> 0]
NegInf == [k |-> "ninf", v |-> 0]
Null == [k |-> "null", v |-> 0]

IsNum(a) == a.k = "num"

\* a + b
JsAdd(a, b) ==
  IF a.k = "nan" \/ b.k = "nan" THEN NaN
  ELSE IF a.k = "ninf" \/ b.k = "ninf" THEN NegInf
  ELSE Num(a.v + b.v)

\* a - b, b finite or NaN
JsSub(a, b) ==
  IF a.k = "nan" \/ b.k = "nan" THEN NaN
  ELSE IF a.k = "ninf" THEN NegInf
  ELSE Num(a.v - b.v)

\* a < b
JsLess(a, b) ==
  IF a.k = "nan" \/ b.k = "nan" THEN FALSE
  ELSE IF b.k = "ninf" THEN FALSE
  ELSE IF a.k = "ninf" THEN TRUE
  ELSE a.v < b.v

\* Math.max(a, b)
JsMax(a, b) ==
  IF a.k = "nan" \/ b.k = "nan" THEN NaN
  ELSE IF a.k = "ninf" THEN b
  ELSE IF b.k = "ninf" THEN a
  ELSE IF a.v >= b.v THEN a ELSE b

----------------------------------------------------------------------------
(* Texts *)

Digits == {"0", "1", "2", "3", "4", "5", "6", "7", "8", "9"}

DigitVal(c) ==
  CASE c = "0" -> 0 [] c = "1" -> 1 [] c = "2" -> 2 [] c = "3" -> 3
    [] c = "4" -> 4 [] c = "5" -> 5 [] c = "6" -> 6 [] c = "7" -> 7
    [] c = "8" -> 8 [] c = "9" -> 9

IsSpace(c) == c = " "

\* the number of digits s has from position i on
RECURSIVE DigitRun(_, _)
DigitRun(s, i) ==
  IF i <= Len(s) /\ s[i] \in Digits THEN 1 + DigitRun(s, i + 1) ELSE 0

\* Number(s) of a text of digits
RECURSIVE DigitsToNumber(_)
DigitsToNumber(s) ==
  IF s = <<>> THEN 0
  ELSE 10 * DigitsToNumber(SubSeq(s, 1, Len(s) - 1)) + DigitVal(s[Len(s)])

\* String.prototype.trim
RECURSIVE Trim(_)
Trim(s) ==
  IF s = <<>> THEN s
  ELSE IF IsSpace(s[1]) THEN Trim(Tail(s))
  ELSE IF IsSpace(s[Len(s)]) THEN Trim(SubSeq(s, 1, Len(s) - 1))
  ELSE s

\* timestamp.match(/^([0-9]+)\./): one digit or more, then a dot
DayCountMatch(s) ==
  LET n == DigitRun(s, 1) IN n >= 1 /\ n < Len(s) /\ s[n + 1] = "."

\* dayCountMatch[1]
DayCountGroup(s) == SubSeq(s, 1, DigitRun(s, 1))

\* const [_, ...rest] = timestamp.split('.'); rest.join('.')
DropFirstDotPart(s) ==
  IF \E i \in 1..Len(s) : s[i] = "."
  THEN LET d == CHOOSE i \in 1..Len(s) : s[i] = "." /\ \A j \in 1..(i - 1) : s[j] # "."
       IN SubSeq(s, d + 1, Len(s))
  ELSE <<>>

\* timestamp.match(/\.[0-9]+$/): a dot and one digit or more, up to the end
MillisecondMatch(s) ==
  \E i \in 1..Len(s) : s[i] = "." /\ i < Len(s) /\ DigitRun(s, i + 1) = Len(s) - i

Min(a, b) == IF a <= b THEN a ELSE b

MsPerSecond == 1000
MsPerMinute == 60 * MsPerSecond
MsPerHour == 60 * MsPerMinute
\* 1000 * 60 * 60 * 24
MsPerDay == 24 * MsPerHour

\* ClockMs without the validation of hour, minute and second
ClockMsUnvalidated(s) ==
  LET nH == Min(DigitRun(s, 1), 2)
      pM == nH + 2
      nM == Min(DigitRun(s, pM), 2)
      pS == pM + nM + 1
      nS == Min(DigitRun(s, pS), 2)
      pF == pS + nS + 1
      nF == Min(DigitRun(s, pF), 7)
      rest == SubSeq(s, pF + nF, Len(s))
      ok == /\ nH >= 1 /\ nH < Len(s) /\ s[nH + 1] = ":"
            /\ nM >= 1 /\ pM + nM <= Len(s) /\ s[pM + nM] = ":"
            /\ nS >= 1 /\ pS + nS <= Len(s) /\ s[pS + nS] = "."
            /\ nF >= 1
            /\ \A i \in 1..Len(rest) : IsSpace(rest[i])
      h == DigitsToNumber(SubSeq(s, 1, nH))
      m == DigitsToNumber(SubSeq(s, pM, pM + nM - 1))
      sec == DigitsToNumber(SubSeq(s, pS, pS + nS - 1))
      f == DigitsToNumber(SubSeq(s, pF, pF + nF - 1))
  IN IF ok
     THEN Num(h * MsPerHour + m * MsPerMinute + sec * MsPerSecond + (f \div 10000))
     ELSE NaN

(***************************************************************************)
(* date-fns parse(s, 'HH:mm:ss.SSSSSSS', ref) followed by                  *)
(* differenceInMilliseconds(parsed, startOfDay(parsed)).  HH, mm and ss    *)
(* each take one or two digits, SSSSSSS takes one to seven digits read as  *)
(* units of 10^-7 s and floored to milliseconds, ':' and '.' must match    *)
(* literally, only white space may remain, and the hour must be below 24,  *)
(* minute and second below 60.  A text that does not parse gives an        *)
(* Invalid Date, whose difference is NaN.                                  *)
(***************************************************************************)
ClockMs(s) ==
  LET nH == Min(DigitRun(s, 1), 2)
      pM == nH + 2
      nM == Min(DigitRun(s, pM), 2)
      pS == pM + nM + 1
      nS == Min(DigitRun(s, pS), 2)
      pF == pS + nS + 1
      nF == Min(DigitRun(s, pF), 7)
      rest == SubSeq(s, pF + nF, Len(s))
      ok == /\ nH >= 1 /\ nH < Len(s) /\ s[nH + 1] = ":"
            /\ nM >= 1 /\ pM + nM <= Len(s) /\ s[pM + nM] = ":"
            /\ nS >= 1 /\ pS + nS <= Len(s) /\ s[pS + nS] = "."
            /\ nF >= 1
            /\ \A i \in 1..Len(rest) : IsSpace(rest[i])
      h == DigitsToNumber(SubSeq(s, 1, nH))
      m == DigitsToNumber(SubSeq(s, pM, pM + nM - 1))
      sec == DigitsToNumber(SubSeq(s, pS, pS + nS - 1))
      f == DigitsToNumber(SubSeq(s, pF, pF + nF - 1))
  IN IF ok /\ h <= 23 /\ m <= 59 /\ sec <= 59
     THEN Num(h * MsPerHour + m * MsPerMinute + sec * MsPerSecond + (f \div 10000))
     ELSE NaN

FractionPad == <<".", "0", "0", "0", "0", "0", "0", "0">>

\* the text parseTimestamp hands to parse: day prefix dropped, fraction padded
ClockPortion(rawTimestamp) ==
  LET trimmed == Trim(rawTimestamp)
      timestamp == IF DayCountMatch(trimmed) THEN DropFirstDotPart(trimmed) ELSE trimmed
  IN IF MillisecondMatch(timestamp) THEN timestamp ELSE timestamp \o FractionPad

\* parseTimestamp: [threw, value]; no statement of it throws on a text
ParseTimestamp(rawTimestamp) ==
  LET trimmed == Trim(rawTimestamp)
      dayDuration == IF DayCountMatch(trimmed)
                     THEN MsPerDay * DigitsToNumber(DayCountGroup(trimmed))
                     ELSE 0
  IN [threw |-> FALSE,
      value |-> JsAdd(Num(dayDuration), ClockMs(ClockPortion(rawTimestamp)))]

----------------------------------------------------------------------------
(* The document: Segment nodes with their 'uuid' attribute and their       *)
(* SegmentHistory Time entries, and the AttemptHistory Attempt nodes.      *)

\* no id: a missing attribute, null, undefined
NoId == 0

NoElement == [present |-> FALSE, text |-> <<>>]
Element(text) == [present |-> TRUE, text |-> text]

\* <Time id=.../> with its optional GameTime and RealTime children
TimeEntry(id, game, real) == [id |-> id, game |-> game, real |-> real]

\* <Segment>: the 'uuid' attribute and the Time entries of its history
SegmentNode(hist) == [uuid |-> NoId, hist |-> hist]

\* <Attempt id started ended>: the instants are the attributes as
\* parse(..., 'MM/dd/yyyy HH:mm:ss', baseDate) reads them, in milliseconds
AttemptNode(id, started, ended, pause) ==
  [id |-> id, started |-> started, ended |-> ended, pause |-> pause]

NoAttribute == [present |-> FALSE, at |-> NaN]
Attribute(at) == [present |-> TRUE, at |-> at]

----------------------------------------------------------------------------
(* JavaScript objects as the sequence of their values, each with its key   *)
(* in the field id.                                                        *)

\* the accumulator of a reduce, evaluated before the next step starts
Evaluated(acc) == acc = acc

HasKey(obj, id) == \E i \in 1..Len(obj) : obj[i].id = id

Get(obj, id) == obj[CHOOSE i \in 1..Len(obj) : obj[i].id = id]

\* { ...obj, [rec.id]: rec } for string keys: a new key comes last
Put(obj, rec) ==
  IF HasKey(obj, rec.id)
  THEN [i \in 1..Len(obj) |-> IF obj[i].id = rec.id THEN rec ELSE obj[i]]
  ELSE Append(obj, rec)

\* { ...obj, [rec.id]: rec } for the attempt ids, which are integer keys:
\* Object.values and Object.entries list integer keys in ascending order
PutSorted(obj, rec) ==
  IF HasKey(obj, rec.id)
  THEN [i \in 1..Len(obj) |-> IF obj[i].id = rec.id THEN rec ELSE obj[i]]
  ELSE LET before == SelectSeq(obj, LAMBDA r : r.id < rec.id)
           after == SelectSeq(obj, LAMBDA r : r.id > rec.id)
       IN before \o <<rec>> \o after

----------------------------------------------------------------------------
(* assignIDsToSegments *)

\* uuid(): the i-th identifier drawn after base were drawn
Uuid(base, i) == base + i

\* AssignStep writing the attribute onto the previous node of the list
AssignStepMarkingPrevious(st, list, i, base) ==
  LET segmentId == Uuid(base, i)
      previousSegmentId == IF i > 1 THEN st.nodes[list[i - 1]].uuid ELSE NoId
      nodes == [st.nodes EXCEPT ![list[IF i > 1 THEN i - 1 ELSE i]].uuid = segmentId]
      added == Put(st.acc, [id |-> segmentId,
                            index |-> i - 1,
                            nextSegmentId |-> NoId,
                            totalDeaths |-> 0,
                            isLastSegment |-> (i - 1 = Len(list) - 1)])
      linked == IF previousSegmentId # NoId /\ HasKey(added, previousSegmentId)
                THEN Put(added, [Get(added, previousSegmentId)
                                   EXCEPT !.nextSegmentId = segmentId])
                ELSE added
  IN [nodes |-> nodes, acc |-> linked]

\* one step of the reduce over list, at position i (index i - 1)
AssignStep(st, list, i, base) ==
  LET segmentId == Uuid(base, i)
      previousSegmentId == IF i > 1 THEN st.nodes[list[i - 1]].uuid ELSE NoId
      nodes == [st.nodes EXCEPT ![list[i]].uuid = segmentId]
      added == Put(st.acc, [id |-> segmentId,
                            index |-> i - 1,
                            nextSegmentId |-> NoId,
                            totalDeaths |-> 0,
                            isLastSegment |-> (i - 1 = Len(list) - 1)])
      linked == IF previousSegmentId # NoId /\ HasKey(added, previousSegmentId)
                THEN Put(added, [Get(added, previousSegmentId)
                                   EXCEPT !.nextSegmentId = segmentId])
                ELSE added
  IN [nodes |-> nodes, acc |-> linked]

RECURSIVE AssignLoop(_, _, _, _)
AssignLoop(st, list, i, base) ==
  IF Evaluated(st) /\ i <= Len(list)
  THEN AssignLoop(AssignStep(st, list, i, base), list, i + 1, base)
  ELSE st

\* AllSegments keeping only the nodes that carry no 'uuid' attribute yet
SegmentsWithoutUuid(nodes) ==
  SelectSeq([i \in 1..Len(nodes) |-> i], LAMBDA i : nodes[i].uuid = NoId)

\* document.querySelectorAll('Segment'): the positions of the Segment nodes
AllSegments(nodes) == [i \in 1..Len(nodes) |-> i]

\* [nodes: the Segment nodes as the call leaves them, acc: segmentsById]
AssignIDsToSegments(nodes, base) ==
  AssignLoop([nodes |-> nodes, acc |-> <<>>], AllSegments(nodes), 1, base)

----------------------------------------------------------------------------
(* calculateAttemptDuration *)

\* CalculateAttemptDuration dropping the day count without subtracting it
CalculateAttemptDurationLessClockOnly(attempt) ==
  IF ~attempt.ended.present THEN Num(0)
  ELSE LET span == JsSub(attempt.ended.at, attempt.started.at)
           trimmed == Trim(attempt.pause.text)
           hasDays == DayCountMatch(trimmed)
           pauseText == IF hasDays THEN DropFirstDotPart(trimmed) ELSE trimmed
       IN IF attempt.pause.present
          THEN JsSub(span, ClockMs(pauseText))
          ELSE span

CalculateAttemptDuration(attempt) ==
  IF ~attempt.ended.present THEN Num(0)
  ELSE LET span == JsSub(attempt.ended.at, attempt.started.at)
           trimmed == Trim(attempt.pause.text)
           hasDays == DayCountMatch(trimmed)
           lessDays == IF hasDays
                       THEN JsSub(span, Num(MsPerDay * DigitsToNumber(DayCountGroup(trimmed))))
                       ELSE span
           pauseText == IF hasDays THEN DropFirstDotPart(trimmed) ELSE trimmed
       IN IF attempt.pause.present
          THEN JsSub(lessDays, ClockMs(pauseText))
          ELSE span

----------------------------------------------------------------------------
(* parseLivesplitDocument *)

NewRun(attempt) ==
  [id |-> attempt.id,
   segmentTimes |-> <<>>,
   totalDuration |-> CalculateAttemptDuration(attempt),
   lastRecordedSegment |-> NoId,
   deathSegment |-> NoId,
   isComplete |-> FALSE]

\* runDataFromAttempts: the reduce over 'AttemptHistory Attempt'
RECURSIVE RunDataFromAttempts(_, _)
RunDataFromAttempts(attempts, acc) ==
  IF Evaluated(acc) /\ attempts # <<>>
  THEN RunDataFromAttempts(Tail(attempts), PutSorted(acc, NewRun(Head(attempts))))
  ELSE acc

\* runElement.querySelector('GameTime') || runElement.querySelector('RealTime')
TimeElementOf(entry) == IF entry.game.present THEN entry.game ELSE entry.real

\* CorrelateEntry leaving out the entries that have no time element
CorrelateEntryTimedOnly(innerAcc, segmentId, entry) ==
  LET timeElement == TimeElementOf(entry) IN
  IF ~HasKey(innerAcc, entry.id) \/ ~timeElement.present THEN innerAcc
  ELSE LET run == Get(innerAcc, entry.id)
       IN PutSorted(innerAcc,
                    [run EXCEPT !.segmentTimes =
                       Put(run.segmentTimes,
                           [id |-> segmentId,
                            time |-> ParseTimestamp(timeElement.text).value])])

\* CorrelateEntry making a run for an id that innerAcc does not have
CorrelateEntryAddingRun(innerAcc, segmentId, entry) ==
  LET timeElement == TimeElementOf(entry)
      known == IF HasKey(innerAcc, entry.id) THEN innerAcc
               ELSE PutSorted(innerAcc, [id |-> entry.id,
                                         segmentTimes |-> <<>>,
                                         totalDuration |-> Num(0),
                                         lastRecordedSegment |-> NoId,
                                         deathSegment |-> NoId,
                                         isComplete |-> FALSE])
      run == Get(known, entry.id)
      time == IF timeElement.present
              THEN ParseTimestamp(timeElement.text).value
              ELSE Null
  IN PutSorted(known,
               [run EXCEPT !.segmentTimes =
                  Put(run.segmentTimes, [id |-> segmentId, time |-> time])])

\* the inner reduce step: one Time entry of the segment with id segmentId
CorrelateEntry(innerAcc, segmentId, entry) ==
  LET timeElement == TimeElementOf(entry) IN
  IF ~HasKey(innerAcc, entry.id) THEN innerAcc
  ELSE LET run == Get(innerAcc, entry.id)
           time == IF timeElement.present
                   THEN ParseTimestamp(timeElement.text).value
                   ELSE Null
       IN PutSorted(innerAcc,
                    [run EXCEPT !.segmentTimes =
                       Put(run.segmentTimes, [id |-> segmentId, time |-> time])])

RECURSIVE CorrelateHistory(_, _, _)
CorrelateHistory(innerAcc, segmentId, hist) ==
  IF Evaluated(innerAcc) /\ hist # <<>>
  THEN CorrelateHistory(CorrelateEntry(innerAcc, segmentId, Head(hist)),
                        segmentId, Tail(hist))
  ELSE innerAcc

\* runs: the reduce over the Segment nodes, each with its 'uuid' attribute
RECURSIVE CorrelateSegments(_, _)
CorrelateSegments(acc, nodes) ==
  IF Evaluated(acc) /\ nodes # <<>>
  THEN CorrelateSegments(CorrelateHistory(acc, Head(nodes).uuid, Head(nodes).hist),
                         Tail(nodes))
  ELSE acc

\* Object.values(segmentsById).find(segment => segment.index === index)
FindByIndex(segmentsById, index) ==
  IF \E i \in 1..Len(segmentsById) : segmentsById[i].index = index
  THEN segmentsById[CHOOSE i \in 1..Len(segmentsById) :
                      /\ segmentsById[i].index = index
                      /\ \A j \in 1..(i - 1) : segmentsById[j].index # index].id
  ELSE NoId

\* the reduce of Math.max over Object.keys(run.segmentTimes), from -1
RECURSIVE LastRecordedSegmentIndex(_, _, _)
LastRecordedSegmentIndex(segmentsById, segmentTimes, segmentIndex) ==
  IF segmentTimes = <<>> THEN segmentIndex
  ELSE LET index == Get(segmentsById, Head(segmentTimes).id).index
       IN LastRecordedSegmentIndex(segmentsById, Tail(segmentTimes),
                                   IF index >= segmentIndex THEN index ELSE segmentIndex)

\* segmentsById[id].index is a TypeError when segmentsById has no such id
MetadataThrows(segmentsById, runs) ==
  \E r \in 1..Len(runs) : \E t \in 1..Len(runs[r].segmentTimes) :
    ~HasKey(segmentsById, runs[r].segmentTimes[t].id)

\* RunWithMetadata taking the last recorded segment as the death segment
RunWithMetadataDyingAtLast(segmentsById, run) ==
  LET firstSegment == FindByIndex(segmentsById, 0)
      lastRecordedSegmentIndex ==
        LastRecordedSegmentIndex(segmentsById, run.segmentTimes, 0 - 1)
      lastRecordedSegment == FindByIndex(segmentsById, lastRecordedSegmentIndex)
      hasNoRecordedSegments == Len(run.segmentTimes) = 0
      last == Get(segmentsById, lastRecordedSegment)
  IN [run EXCEPT
        !.lastRecordedSegment = lastRecordedSegment,
        !.isComplete = IF lastRecordedSegment # NoId THEN last.isLastSegment ELSE FALSE,
        !.deathSegment =
           IF hasNoRecordedSegments THEN firstSegment
           ELSE IF lastRecordedSegment # NoId /\ ~last.isLastSegment
                THEN lastRecordedSegment
                ELSE NoId]

\* one run of runsWithMetadata
RunWithMetadata(segmentsById, run) ==
  LET firstSegment == FindByIndex(segmentsById, 0)
      lastRecordedSegmentIndex ==
        LastRecordedSegmentIndex(segmentsById, run.segmentTimes, 0 - 1)
      lastRecordedSegment == FindByIndex(segmentsById, lastRecordedSegmentIndex)
      hasNoRecordedSegments == Len(run.segmentTimes) = 0
      last == Get(segmentsById, lastRecordedSegment)
  IN [run EXCEPT
        !.lastRecordedSegment = lastRecordedSegment,
        !.isComplete = IF lastRecordedSegment # NoId THEN last.isLastSegment ELSE FALSE,
        !.deathSegment =
           IF hasNoRecordedSegments THEN firstSegment
           ELSE IF lastRecordedSegment # NoId /\ last.nextSegmentId # NoId
                   /\ HasKey(segmentsById, last.nextSegmentId)
                THEN last.nextSegmentId
                ELSE NoId]

RunsWithMetadata(segmentsById, runs) ==
  [r \in 1..Len(runs) |-> RunWithMetadata(segmentsById, runs[r])]

\* TotalDeaths counting the runs that have a segment time for the segment
TotalDeathsOfReaching(runsWithMetadata, id) ==
  Cardinality({r \in 1..Len(runsWithMetadata) : HasKey(runsWithMetadata[r].segmentTimes, id)})

\* Object.values(runsWithMetadata).filter(run => run.deathSegment?.id === id).length
TotalDeaths(runsWithMetadata, id) ==
  Cardinality({r \in 1..Len(runsWithMetadata) : runsWithMetadata[r].deathSegment = id})

SegmentsWithMetadata(segmentsById, runsWithMetadata) ==
  [i \in 1..Len(segmentsById) |->
     [segmentsById[i] EXCEPT !.totalDeaths = TotalDeaths(runsWithMetadata, segmentsById[i].id)]]

RECURSIVE SumDurations(_, _)
SumDurations(runList, acc) ==
  IF Evaluated(acc) /\ runList # <<>>
  THEN SumDurations(Tail(runList), JsAdd(acc, Head(runList).totalDuration))
  ELSE acc

\* Math.max(...durations): -Infinity of no argument
RECURSIVE MaxDuration(_, _)
MaxDuration(runList, acc) ==
  IF Evaluated(acc) /\ runList # <<>>
  THEN MaxDuration(Tail(runList), JsMax(acc, Head(runList).totalDuration))
  ELSE acc

NoRun == 0

\* one step of the personalBest reduce; best is a run's id, NoRun for null
BetterRun(runList, best, run) ==
  IF best = NoRun THEN run.id
  ELSE IF JsLess(run.totalDuration, Get(runList, best).totalDuration) THEN run.id
  ELSE best

RECURSIVE PersonalBest(_, _, _)
PersonalBest(runList, i, best) ==
  IF Evaluated(best) /\ i <= Len(runList)
  THEN PersonalBest(runList, i + 1, BetterRun(runList, best, runList[i]))
  ELSE best

Threw == [threw |-> TRUE, segments |-> <<>>, runs |-> <<>>, runCount |-> 0,
          totalDuration |-> NaN, longestAttemptDuration |-> NaN,
          personalBest |-> NoRun]

\* [nodes: the Segment nodes after the call, data: the LivesplitData returned]
ParseLivesplitDocument(document, base) ==
  LET assigned == AssignIDsToSegments(document.segments, base)
      segmentsById == assigned.acc
      runDataFromAttempts == RunDataFromAttempts(document.attempts, <<>>)
      runs == CorrelateSegments(runDataFromAttempts, assigned.nodes)
      runsWithMetadata == RunsWithMetadata(segmentsById, runs)
      runList == runsWithMetadata
  IN [nodes |-> assigned.nodes,
      data |->
        IF MetadataThrows(segmentsById, runs) THEN Threw
        ELSE [threw |-> FALSE,
              segments |-> SegmentsWithMetadata(segmentsById, runsWithMetadata),
              runs |-> runsWithMetadata,
              runCount |-> Len(runList),
              totalDuration |-> SumDurations(runList, Num(0)),
              longestAttemptDuration |-> MaxDuration(runList, NegInf),
              personalBest |-> PersonalBest(runList, 1, NoRun)]]

----------------------------------------------------------------------------
(* calculatePercentiles *)

\* PERCENTILES = [0.5, 0.75, 0.9, 0.95], in hundredths
PERCENTILES == <<50, 75, 90, 95>>

\* FractionExceeds with >= for >
FractionReaches(sum, runCount, percentile) ==
  IF runCount = 0 THEN sum > 0
  ELSE 100 * sum >= percentile * runCount

\* FractionExceeds comparing with 1 - percentile
FractionExceedsComplement(sum, runCount, percentile) ==
  IF runCount = 0 THEN sum > 0
  ELSE 100 * sum > (100 - percentile) * runCount

\* sum / runCount > percentile, percentile in hundredths: 0 / 0 is NaN and
\* compares false, a positive sum over 0 is Infinity
FractionExceeds(sum, runCount, percentile) ==
  IF runCount = 0 THEN sum > 0
  ELSE 100 * sum > percentile * runCount

\* the for loop over Object.values(segments): the first segment at which the
\* running sum exceeds the percentile, NoId when the loop runs out
RECURSIVE PercentileLoop(_, _, _, _, _)
PercentileLoop(segments, runCount, percentile, i, sum) ==
  IF i > Len(segments) THEN NoId
  ELSE LET next == sum + segments[i].totalDeaths
       IN IF FractionExceeds(next, runCount, percentile) THEN segments[i].id
          ELSE PercentileLoop(segments, runCount, percentile, i + 1, next)

\* one step of the reduce over PERCENTILES
PercentileStep(acc, livesplitData, percentile) ==
  LET segment == PercentileLoop(livesplitData.segments, livesplitData.runCount,
                                percentile, 1, 0)
  IN IF segment # NoId
     THEN Put(acc, [id |-> percentile, segment |-> segment])
     ELSE acc

RECURSIVE PercentileReduce(_, _, _)
PercentileReduce(acc, livesplitData, i) ==
  IF Evaluated(acc) /\ i <= Len(PERCENTILES)
  THEN PercentileReduce(PercentileStep(acc, livesplitData, PERCENTILES[i]),
                        livesplitData, i + 1)
  ELSE acc

\* the object returned: its entries, keyed by percentile, hold a segment's id
CalculatePercentiles(livesplitData) == PercentileReduce(<<>>, livesplitData, 1)

----------------------------------------------------------------------------
(* pages/index.tsx: the page's own computation over the document, in the   *)
(* 'load' listener of Home.  A Segment node has its Name child in the      *)
(* field name; an Attempt node has in the field finished whether it has a  *)
(* GameTime or RealTime descendant.                                        *)

\* Infinity: Math.min of nothing, a positive number over 0
PosInf == [k |-> "pinf", v |-> 0]

\* undefined: a name splitNamesToDeathCounts has no key for
Undefined == [k |-> "undefined", v |-> 0]

PageSegmentNode(name, hist) == [uuid |-> NoId, hist |-> hist, name |-> name]

PageAttemptNode(id, started, ended, pause, finished) ==
  [id |-> id, started |-> started, ended |-> ended, pause |-> pause,
   finished |-> finished]

\* Math.min(a, b)
JsMin(a, b) ==
  IF a.k = "nan" \/ b.k = "nan" THEN NaN
  ELSE IF a.k = "pinf" THEN b
  ELSE IF b.k = "pinf" THEN a
  ELSE IF a.v <= b.v THEN a ELSE b

\* Math.floor(a / n) for a length n: 0 / 0 is NaN, a / 0 is an infinity
JsFloorDiv(a, n) ==
  IF a.k # "num" THEN a
  ELSE IF n = 0
       THEN (IF a.v = 0 THEN NaN ELSE IF a.v > 0 THEN PosInf ELSE NegInf)
       ELSE Num(a.v \div n)

\* formatPercentage(successes, trials).value: Math.floor(successes / trials * 100),
\* the floor of the exact quotient; the label is written from the value
FormatPercentage(successes, trials) == JsFloorDiv(Num(100 * successes), trials)

\* formatMillisecondDuration(totalMilliseconds) throws: date-fns
\* intervalToDuration raises a RangeError for an Invalid Date, which
\* new Date(NaN) and new Date(+-Infinity) are
FormatMillisecondDurationThrows(totalMilliseconds) == ~IsNum(totalMilliseconds)

\* lines 78-100: the duration of an attempt that has an 'ended' attribute
RunDuration(attempt) ==
  LET span == JsSub(attempt.ended.at, attempt.started.at)
      trimmed == Trim(attempt.pause.text)
      hasDays == DayCountMatch(trimmed)
      lessDays == IF hasDays
                  THEN JsSub(span, Num(MsPerDay * DigitsToNumber(DayCountGroup(trimmed))))
                  ELSE span
      pauseText == IF hasDays THEN DropFirstDotPart(trimmed) ELSE trimmed
  IN IF attempt.pause.present
     THEN JsSub(lessDays, ClockMs(pauseText))
     ELSE span

\* runDurations: [duration, attempt] of the attempts that have ended
RunDurations(attempts) ==
  LET ended == SelectSeq(attempts, LAMBDA attempt : attempt.ended.present)
  IN [i \in 1..Len(ended) |-> [duration |-> RunDuration(ended[i]), attempt |-> ended[i]]]

\* runDurations.reduce((acc, [attemptDuration]) => acc + attemptDuration, 0)
RECURSIVE TotalAttemptDuration(_, _)
TotalAttemptDuration(runDurations, acc) ==
  IF Evaluated(acc) /\ runDurations # <<>>
  THEN TotalAttemptDuration(Tail(runDurations), JsAdd(acc, Head(runDurations).duration))
  ELSE acc

\* Math.max(...durations), from -Infinity
RECURSIVE LongestAttemptDuration(_, _)
LongestAttemptDuration(runDurations, acc) ==
  IF Evaluated(acc) /\ runDurations # <<>>
  THEN LongestAttemptDuration(Tail(runDurations), JsMax(acc, Head(runDurations).duration))
  ELSE acc

\* completedAttemptDurations: those whose attempt has a GameTime or RealTime
CompletedAttemptDurations(runDurations) ==
  SelectSeq(runDurations, LAMBDA item : item.attempt.finished)

\* Math.min(...durations), from Infinity
RECURSIVE PbDuration(_, _)
PbDuration(completed, acc) ==
  IF Evaluated(acc) /\ completed # <<>>
  THEN PbDuration(Tail(completed), JsMin(acc, Head(completed).duration))
  ELSE acc

\* null: the last Segment has no nextElementSibling
NoSibling == 0

\* split.nextElementSibling, for the Segment at position split
NextElementSibling(nodes, split) == IF split < Len(nodes) THEN split + 1 ELSE NoSibling

\* the inner reduce of lastSplits: every id the history cites maps to split
RECURSIVE LastSplitsOfHistory(_, _, _)
LastSplitsOfHistory(innerAcc, split, hist) ==
  IF Evaluated(innerAcc) /\ hist # <<>>
  THEN LastSplitsOfHistory(PutSorted(innerAcc, [id |-> Head(hist).id, split |-> split]),
                           split, Tail(hist))
  ELSE innerAcc

\* lastSplits: the reduce over the Segment nodes, from position split on
RECURSIVE LastSplits(_, _, _)
LastSplits(acc, nodes, split) ==
  IF Evaluated(acc) /\ split <= Len(nodes)
  THEN LastSplits(LastSplitsOfHistory(acc, split, nodes[split].hist), nodes, split + 1)
  ELSE acc

\* determineRunDeathPoints: id -> the Segment after the last one citing id
DetermineRunDeathPoints(nodes) ==
  LET lastSplits == LastSplits(<<>>, nodes, 1)
      kept == SelectSeq(lastSplits,
                        LAMBDA entry : NextElementSibling(nodes, entry.split) # NoSibling)
  IN [i \in 1..Len(kept) |->
        [id |-> kept[i].id, split |-> NextElementSibling(nodes, kept[i].split)]]

\* element.querySelector('Name').textContent is a TypeError without a Name
SplitNameThrows(nodes, deathPoints) ==
  \E i \in 1..Len(deathPoints) : ~nodes[deathPoints[i].split].name.present

\* splitNamesToDeathCounts: the reduce over Object.values(deathPoints)
RECURSIVE SplitNamesToDeathCounts(_, _, _)
SplitNamesToDeathCounts(acc, nodes, deathPoints) ==
  IF Evaluated(acc) /\ deathPoints # <<>>
  THEN LET splitName == Trim(nodes[Head(deathPoints).split].name.text)
           count == IF HasKey(acc, splitName) THEN Get(acc, splitName).count ELSE 0
       IN SplitNamesToDeathCounts(Put(acc, [id |-> splitName, count |-> count + 1]),
                                  nodes, Tail(deathPoints))
  ELSE acc

\* Object.values(splitNamesToDeathCounts).reduce((acc, value) => acc + value, 0)
RECURSIVE SumOfCounts(_, _)
SumOfCounts(counts, acc) ==
  IF Evaluated(acc) /\ counts # <<>>
  THEN SumOfCounts(Tail(counts), acc + Head(counts).count)
  ELSE acc

\* the name '<<undefined>>'
UndefinedName == <<"<", "<", "u", "n", "d", "e", "f", "i", "n", "e", "d", ">", ">">>

\* splitWithMostDeaths: the reduce from ['', 0]
RECURSIVE SplitWithMostDeaths(_, _)
SplitWithMostDeaths(counts, acc) ==
  IF Evaluated(acc) /\ counts # <<>>
  THEN SplitWithMostDeaths(Tail(counts),
                           IF Head(counts).id # UndefinedName /\ Head(counts).count > acc.count
                           THEN [name |-> Head(counts).id, count |-> Head(counts).count]
                           ELSE acc)
  ELSE acc

\* segmentNames: the trimmed texts of document.querySelectorAll('Segment Name')
SegmentNames(nodes) ==
  LET named == SelectSeq(nodes, LAMBDA node : node.name.present)
  IN [i \in 1..Len(named) |-> Trim(named[i].name.text)]

\* sortedSplitNamesToDeathCounts: the reduce over segmentNames, from index on
RECURSIVE SortedSplitNamesToDeathCounts(_, _, _, _, _)
SortedSplitNamesToDeathCounts(acc, segmentNames, index, deathsBeforeFirstSplit, counts) ==
  IF Evaluated(acc) /\ index < Len(segmentNames)
  THEN LET name == segmentNames[index + 1]
           count == IF index = 0 THEN Num(deathsBeforeFirstSplit)
                    ELSE IF HasKey(counts, name) THEN Num(Get(counts, name).count)
                    ELSE Undefined
       IN SortedSplitNamesToDeathCounts(Put(acc, [id |-> name, count |-> count]),
                                        segmentNames, index + 1,
                                        deathsBeforeFirstSplit, counts)
  ELSE acc

\* sum / attempts.length > percentile, percentile in hundredths
PageFractionExceeds(sum, attemptCount, percentile) ==
  IF attemptCount = 0 THEN sum > 0
  ELSE 100 * sum > percentile * attemptCount

\* the for loop over Object.entries(sortedSplitNamesToDeathCounts): found, and
\* the name of the first segment at which the running sum exceeds the percentile
RECURSIVE PagePercentileLoop(_, _, _, _, _)
PagePercentileLoop(sorted, attemptCount, percentile, i, sum) ==
  IF i > Len(sorted) THEN [found |-> FALSE, segment |-> <<>>]
  ELSE LET next == sum + (IF sorted[i].count = Undefined THEN 0 ELSE sorted[i].count.v)
       IN IF PageFractionExceeds(next, attemptCount, percentile)
          THEN [found |-> TRUE, segment |-> sorted[i].id]
          ELSE PagePercentileLoop(sorted, attemptCount, percentile, i + 1, next)

\* percentiles: the reduce over PERCENTILES, from position i on
RECURSIVE PagePercentiles(_, _, _, _)
PagePercentiles(acc, sorted, attemptCount, i) ==
  IF Evaluated(acc) /\ i <= Len(PERCENTILES)
  THEN LET hit == PagePercentileLoop(sorted, attemptCount, PERCENTILES[i], 1, 0)
       IN PagePercentiles(IF hit.found
                          THEN Put(acc, [id |-> PERCENTILES[i], segment |-> hit.segment])
                          ELSE acc,
                          sorted, attemptCount, i + 1)
  ELSE acc

NoResults == [attemptCount |-> 0]

Idle == [state |-> "idle", error |-> "", results |-> NoResults]

Failed(error) == [state |-> "error", error |-> error, results |-> NoResults]

\* the 'load' listener: setResults({...}), or setError(...) of what was thrown;
\* a humanized duration is held as the milliseconds it is written from
OnLoad(document) ==
  LET nodes == document.segments
      attempts == document.attempts
      runDurations == RunDurations(attempts)
      totalAttemptDuration == TotalAttemptDuration(runDurations, Num(0))
      longestAttemptDuration == LongestAttemptDuration(runDurations, NegInf)
      completedAttemptDurations == CompletedAttemptDurations(runDurations)
      pbDuration == PbDuration(completedAttemptDurations, PosInf)
      deathPoints == DetermineRunDeathPoints(nodes)
      splitNamesToDeathCounts == SplitNamesToDeathCounts(<<>>, nodes, deathPoints)
      deathsBeforeFirstSplit ==
        Len(attempts) - SumOfCounts(splitNamesToDeathCounts, 0)
          - Len(completedAttemptDurations)
      splitWithMostDeaths ==
        SplitWithMostDeaths(splitNamesToDeathCounts, [name |-> <<>>, count |-> 0])
      segmentNames == SegmentNames(nodes)
      firstSplitName == SelectSeq(nodes, LAMBDA node : node.name.present)[1].name.text
      sortedSplitNamesToDeathCounts ==
        SortedSplitNamesToDeathCounts(<<>>, segmentNames, 0, deathsBeforeFirstSplit,
                                      splitNamesToDeathCounts)
      averageDuration == JsFloorDiv(totalAttemptDuration, Len(attempts))
      mostDeaths == IF deathsBeforeFirstSplit >= splitWithMostDeaths.count
                    THEN deathsBeforeFirstSplit ELSE splitWithMostDeaths.count
  IN IF SplitNameThrows(nodes, deathPoints) THEN Failed("TypeError")
     ELSE IF segmentNames = <<>> THEN Failed("TypeError")
     ELSE IF \/ FormatMillisecondDurationThrows(totalAttemptDuration)
             \/ FormatMillisecondDurationThrows(averageDuration)
             \/ FormatMillisecondDurationThrows(longestAttemptDuration)
             \/ FormatMillisecondDurationThrows(pbDuration)
          THEN Failed("RangeError")
     ELSE [state |-> "results",
           error |-> "",
           results |->
             [attemptCount |-> Len(attempts),
              completedRunCount |-> Len(completedAttemptDurations),
              totalAttemptDuration |-> totalAttemptDuration,
              deathsBeforeFirstSplit |-> deathsBeforeFirstSplit,
              deathsBeforeFirstSplitPercentage |->
                FormatPercentage(deathsBeforeFirstSplit, Len(attempts)),
              splitWithMostDeaths |-> splitWithMostDeaths,
              splitWithMostDeathsPercentage |-> FormatPercentage(mostDeaths, Len(attempts)),
              splitNamesToDeathCounts |-> splitNamesToDeathCounts,
              sortedSplitNamesToDeathCounts |-> sortedSplitNamesToDeathCounts,
              percentiles |-> PagePercentiles(<<>>, sortedSplitNamesToDeathCounts,
                                              Len(attempts), 1),
              firstSplitName |-> firstSplitName,
              completedRunPercentage |->
                FormatPercentage(Len(completedAttemptDurations), Len(attempts)),
              humanizedTotalDuration |-> totalAttemptDuration,
              humanizedAverageDuration |-> averageDuration,
              humanizedLongestDuration |-> longestAttemptDuration,
              humanizedPBDuration |-> pbDuration]]

----------------------------------------------------------------------------
(* The documents and texts the specifications start from *)

\* segments per document, attempt ids, calls of parseLivesplitDocument
MaxSegs == 3
MaxId == 2
MaxParses == 2
\* segments and attempts of the documents of SpecProfile
MaxProfileSegs == 3
MaxProfileRuns == 11

T(h1, h2, m1, m2, s1, s2) == <<h1, h2, ":", m1, m2, ":", s1, s2>>

SegmentTimeText == T("0", "0", "0", "1", "3", "0") \o <<".", "5", "0", "0", "0", "0", "0", "0">>
GameTimeText == T("0", "0", "0", "1", "1", "0") \o <<".", "0", "0", "0", "0", "0", "0", "0">>

\* a Time entry: without a time element, with a RealTime, with a GameTime,
\* with both
EntryOf(id, shape) ==
  CASE shape = "empty" -> TimeEntry(id, NoElement, NoElement)
    [] shape = "real" -> TimeEntry(id, NoElement, Element(SegmentTimeText))
    [] shape = "game" -> TimeEntry(id, Element(GameTimeText), NoElement)
    [] shape = "both" -> TimeEntry(id, Element(GameTimeText), Element(SegmentTimeText))

\* the history with an entry for every id that status gives a shape, by id
RECURSIVE HistoryOf(_, _, _)
HistoryOf(status, id, maxId) ==
  IF id > maxId THEN <<>>
  ELSE (IF status[id] = "none" THEN <<>> ELSE <<EntryOf(id, status[id])>>)
       \o HistoryOf(status, id + 1, maxId)

EntryStatuses == {"none", "empty", "real"}

\* the Segment nodes whose histories statuses describes, one function of
\* the attempt ids per segment
SegmentList(statuses, maxId) ==
  [i \in 1..Len(statuses) |-> SegmentNode(HistoryOf(statuses[i], 1, maxId))]

PauseWithoutFraction == T("0", "0", "3", "0", "0", "0")

\* an attempt never ended, a 1 hour and a 3 hour attempt, and a 3 hour attempt
\* whose PauseTime has no fraction
AttemptOf(id, shape) ==
  CASE shape = "running" -> AttemptNode(id, Attribute(Num(0)), NoAttribute, NoElement)
    [] shape = "short" -> AttemptNode(id, Attribute(Num(0)), Attribute(Num(MsPerHour)), NoElement)
    [] shape = "long" -> AttemptNode(id, Attribute(Num(0)), Attribute(Num(3 * MsPerHour)), NoElement)
    [] shape = "paused" -> AttemptNode(id, Attribute(Num(0)), Attribute(Num(3 * MsPerHour)),
                                       Element(PauseWithoutFraction))

AttemptShapes == {"running", "short", "long", "paused"}

\* the attempt history of the attempts ids[i], each of the shape shapes[i]
AttemptList(ids, shapes) == [i \in 1..Len(ids) |-> AttemptOf(ids[i], shapes[i])]

\* n distinct attempt ids, in any order
DistinctIds(n, maxId) ==
  {f \in [1..n -> 1..maxId] : \A i, j \in 1..n : i # j => f[i] # f[j]}

\* the attempts 1..n of a profile: reach[j], j in 0..segs, of them have an
\* entry in each of the first j segments and in no other
RECURSIVE ProfileTotal(_, _)
ProfileTotal(reach, j) == IF j < 0 THEN 0 ELSE reach[j] + ProfileTotal(reach, j - 1)

\* the number of segments attempt a reaches
ReachOf(reach, segs, a) == Cardinality({j \in 0..(segs - 1) : ProfileTotal(reach, j) < a})

ProfileDocument(segs, reach, shape) ==
  LET n == ProfileTotal(reach, segs)
      reached == [a \in 1..n |-> ReachOf(reach, segs, a)]
  IN [segments |->
        [i \in 1..segs |->
           SegmentNode(HistoryOf([a \in 1..n |-> IF reached[a] >= i THEN shape ELSE "none"],
                                 1, n))],
      attempts |-> [a \in 1..n |-> AttemptOf(a, IF reached[a] = segs
                                                THEN "long" ELSE "running")]]

\* the profiles of segs segments and up to maxRuns attempts
Profiles(segs, maxRuns) ==
  {r \in [0..segs -> 0..maxRuns] : ProfileTotal(r, segs) <= maxRuns}

\* every entry of a profile document has the same shape
ProfileShapes == {"empty", "both"}

\* the texts of SpecTimestamp: a day prefix, a clock, a fraction, white space
DayPrefixes == {<<>>, <<"1", ".">>, <<"1", "2", ".">>}

Clocks ==
  {T("0", "2", "0", "0", "0", "0"), T("0", "0", "0", "1", "3", "0"),
   T("2", "3", "5", "9", "5", "9"), T("2", "4", "0", "0", "0", "0"),
   T("0", "0", "6", "0", "0", "0"), T("0", "0", "0", "0", "6", "1"),
   <<"2", ":", "0", "0", ":", "0", "0">>, <<"0", "2", ":", "0", "0">>,
   <<"0", "2", ":", "0", "0", ":", "0", "0", ":", "0", "0">>,
   <<"0", "2", "0", ":", "0", "0", ":", "0", "0">>,
   <<"x">>, <<"5">>, <<>>}

Fractions ==
  {<<>>, <<".">>, <<".", "5">>, <<".", "5", "0", "0", "0", "0", "0", "0">>, FractionPad,
   <<".", "1", "2", "3", "4", "5", "6", "7", "8">>, <<".", "5", "x">>}

Paddings == {<<>>, <<" ">>}

Texts(days) == {pad \o day \o clock \o fraction \o pad :
            pad \in Paddings, day \in days, clock \in Clocks, fraction \in Fractions}

\* the 'ended' attribute of the attempts of SpecDuration, which start at 0:
\* none, and the ends of a span of 0, 1, 3 and 26 hours
Endings ==
  {NoAttribute, Attribute(Num(0)), Attribute(Num(MsPerHour)),
   Attribute(Num(3 * MsPerHour)), Attribute(Num(MsPerDay + 2 * MsPerHour))}

\* their PauseTime: none, or an element with one of the texts
PauseElements == {NoElement} \cup {Element(text) : text \in Texts(DayPrefixes)}

\* the Name of the Segment node at a position
SegmentLetters == <<"A", "B", "C", "D", "E">>

\* the Segment nodes of SpecPage: named[i] tells whether the i-th has a Name,
\* cited[i] the ids its history has an entry for
PageSegmentList(named, cited, maxId) ==
  [i \in 1..Len(named) |->
     PageSegmentNode(IF named[i] THEN Element(<<SegmentLetters[i]>>) ELSE NoElement,
                     HistoryOf([id \in 1..maxId |-> IF id \in cited[i] THEN "real" ELSE "none"],
                               1, maxId))]

\* an attempt never ended, one reset after an hour, one finished after three,
\* and a finished one whose PauseTime has no fraction
PageAttemptOf(id, shape) ==
  CASE shape = "running" ->
         PageAttemptNode(id, Attribute(Num(0)), NoAttribute, NoElement, FALSE)
    [] shape = "reset" ->
         PageAttemptNode(id, Attribute(Num(0)), Attribute(Num(MsPerHour)), NoElement, FALSE)
    [] shape = "finished" ->
         PageAttemptNode(id, Attribute(Num(0)), Attribute(Num(3 * MsPerHour)), NoElement, TRUE)
    [] shape = "paused" ->
         PageAttemptNode(id, Attribute(Num(0)), Attribute(Num(3 * MsPerHour)),
                         Element(PauseWithoutFraction), TRUE)

PageAttemptShapes == {"running", "reset", "finished", "paused"}

PageAttemptList(ids, shapes) == [i \in 1..Len(ids) |-> PageAttemptOf(ids[i], shapes[i])]

----------------------------------------------------------------------------
(* The specifications *)

EmptyDocument == [segments |-> <<>>, attempts |-> <<>>]
NoPercentiles == [done |-> FALSE, entries |-> <<>>]
NoTimestamp == [done |-> FALSE, threw |-> FALSE, value |-> NaN]
NoAttempt == AttemptNode(NoId, NoAttribute, NoAttribute, NoElement)
NoDuration == [done |-> FALSE, threw |-> FALSE, value |-> NaN]

Init ==
  /\ \E n \in 0..MaxSegs, m \in 0..MaxId :
       \E statuses \in [1..n -> [1..MaxId -> EntryStatuses]],
          ids \in DistinctIds(m, MaxId), shapes \in [1..m -> AttemptShapes] :
         doc = [segments |-> SegmentList(statuses, MaxId),
                attempts |-> AttemptList(ids, shapes)]
  /\ uuidCount = 0
  /\ outs = <<>>
  /\ pct = NoPercentiles
  /\ tok = <<>>
  /\ tsOut = NoTimestamp
  /\ att = NoAttempt
  /\ durOut = NoDuration
  /\ page = Idle

InitProfile ==
  /\ \E segs \in 1..MaxProfileSegs :
       \E reach \in Profiles(segs, MaxProfileRuns), shape \in ProfileShapes :
         doc = ProfileDocument(segs, reach, shape)
  /\ uuidCount = 0
  /\ outs = <<>>
  /\ pct = NoPercentiles
  /\ tok = <<>>
  /\ tsOut = NoTimestamp
  /\ att = NoAttempt
  /\ durOut = NoDuration
  /\ page = Idle

InitTimestamp ==
  /\ doc = EmptyDocument
  /\ uuidCount = 0
  /\ outs = <<>>
  /\ pct = NoPercentiles
  /\ tok \in Texts(DayPrefixes)
  /\ tsOut = NoTimestamp
  /\ att = NoAttempt
  /\ durOut = NoDuration
  /\ page = Idle

\* an attempt, and the text of its PauseTime as parseTimestamp is given it
InitDuration ==
  /\ doc = EmptyDocument
  /\ uuidCount = 0
  /\ outs = <<>>
  /\ pct = NoPercentiles
  /\ tsOut = NoTimestamp
  /\ durOut = NoDuration
  /\ page = Idle
  /\ \E ended \in Endings, pause \in PauseElements :
       /\ att = AttemptNode(1, Attribute(Num(0)), ended, pause)
       /\ tok = pause.text

\* a document as the page and parseLivesplitDocument are given it
InitPage ==
  /\ \E n \in 0..MaxSegs, m \in 0..MaxId :
       \E named \in [1..n -> BOOLEAN], cited \in [1..n -> SUBSET (1..MaxId)],
          ids \in DistinctIds(m, MaxId), shapes \in [1..m -> PageAttemptShapes] :
         doc = [segments |-> PageSegmentList(named, cited, MaxId),
                attempts |-> PageAttemptList(ids, shapes)]
  /\ uuidCount = 0
  /\ outs = <<>>
  /\ pct = NoPercentiles
  /\ tok = <<>>
  /\ tsOut = NoTimestamp
  /\ att = NoAttempt
  /\ durOut = NoDuration
  /\ page = Idle

\* a call parseLivesplitDocument(document) on the document as it is now
Parse ==
  /\ Len(outs) < MaxParses
  /\ ~pct.done
  /\ LET r == ParseLivesplitDocument(doc, uuidCount)
     IN /\ doc' = [doc EXCEPT !.segments = r.nodes]
        /\ outs' = Append(outs, r.data)
  /\ uuidCount' = uuidCount + Len(doc.segments)
  /\ UNCHANGED <<pct, tok, tsOut, att, durOut, page>>

\* a call calculatePercentiles(livesplitData) on the data last returned
Percentiles ==
  /\ outs # <<>>
  /\ ~pct.done
  /\ ~outs[Len(outs)].threw
  /\ pct' = [done |-> TRUE, entries |-> CalculatePercentiles(outs[Len(outs)])]
  /\ UNCHANGED <<doc, uuidCount, outs, tok, tsOut, att, durOut, page>>

\* a call parseTimestamp(rawTimestamp)
Timestamp ==
  /\ ~tsOut.done
  /\ LET r == ParseTimestamp(tok)
     IN tsOut' = [done |-> TRUE, threw |-> r.threw, value |-> r.value]
  /\ UNCHANGED <<doc, uuidCount, outs, pct, tok, att, durOut, page>>

\* a call calculateAttemptDuration(attempt); no statement of it throws
Duration ==
  /\ ~durOut.done
  /\ durOut' = [done |-> TRUE, threw |-> FALSE, value |-> CalculateAttemptDuration(att)]
  /\ UNCHANGED <<doc, uuidCount, outs, pct, tok, tsOut, att, page>>

\* the 'load' listener of the page, on the document as it is now
Load ==
  /\ page.state = "idle"
  /\ page' = OnLoad(doc)
  /\ UNCHANGED <<doc, uuidCount, outs, pct, tok, tsOut, att, durOut>>

\* the first call parseLivesplitDocument(document)
FirstParse == outs = <<>> /\ Parse

Next == Parse \/ Percentiles

NextProfile == FirstParse \/ Percentiles

NextTimestamp == Timestamp

NextDuration == Duration \/ Timestamp

NextPage == FirstParse \/ Load

Spec == Init /\ [][Next]_vars

SpecProfile == InitProfile /\ [][NextProfile]_vars

SpecTimestamp == InitTimestamp /\ [][NextTimestamp]_vars

SpecDuration == InitDuration /\ [][NextDuration]_vars

SpecPage == InitPage /\ [][NextPage]_vars

----------------------------------------------------------------------------
(* What the claims speak of *)

\* the LivesplitData returned so far, none of which is a throw
Returned == {k \in 1..Len(outs) : ~outs[k].threw}

RunsOf(data) == {data.runs[r] : r \in 1..Len(data.runs)}

SegmentsOf(data) == {data.segments[i] : i \in 1..Len(data.segments)}

\* the index of the segment a run refers to, -1 for none
IndexOf(data, id) == IF HasKey(data.segments, id) THEN Get(data.segments, id).index ELSE 0 - 1

RECURSIVE SumOfDeaths(_)
SumOfDeaths(segments) ==
  IF segments = <<>> THEN 0 ELSE Head(segments).totalDeaths + SumOfDeaths(Tail(segments))

CompleteRuns(data) == {run \in RunsOf(data) : run.isComplete}

\* the indices of the document's segments whose history cites the attempt id
CitedIndices(id) ==
  {i - 1 : i \in {j \in 1..Len(doc.segments) :
                    \E e \in 1..Len(doc.segments[j].hist) : doc.segments[j].hist[e].id = id}}

\* those among them whose entry carries a GameTime or a RealTime
TimedIndices(id) ==
  {i - 1 : i \in {j \in 1..Len(doc.segments) :
                    \E e \in 1..Len(doc.segments[j].hist) :
                      /\ doc.segments[j].hist[e].id = id
                      /\ \/ doc.segments[j].hist[e].game.present
                         \/ doc.segments[j].hist[e].real.present}}

\* the greatest of a set of indices, -1 of the empty set
Greatest(indices) ==
  IF indices = {} THEN 0 - 1 ELSE CHOOSE i \in indices : \A j \in indices : j <= i

TerminalIndex == Len(doc.segments) - 1

\* the data calculatePercentiles was called on
PercentileData == outs[Len(outs)]

\* the totalDeaths of the segment of a given index
DeathsAt(data, index) ==
  LET at == {seg \in SegmentsOf(data) : seg.index = index}
  IN IF at = {} THEN 0 ELSE (CHOOSE seg \in at : TRUE).totalDeaths

\* the deaths accumulated over the segments of index 0..index
RECURSIVE DeathsUpTo(_, _)
DeathsUpTo(data, index) ==
  IF index < 0 THEN 0 ELSE DeathsAt(data, index) + DeathsUpTo(data, index - 1)

\* the indices at which accumulated deaths / runCount > target / 100
ExceedingIndices(data, target) ==
  {i \in 0..(Len(data.segments) - 1) : 100 * DeathsUpTo(data, i) > target * data.runCount}

Least(indices) == CHOOSE i \in indices : \A j \in indices : i <= j

Targets == {50, 75, 90, 95}

\* three segments and the attempts 1..4, attempt a cited by the first a - 1
\* segments and by no other
IsScenario ==
  /\ Len(doc.segments) = 3
  /\ {doc.attempts[a].id : a \in 1..Len(doc.attempts)} = 1..4
  /\ Len(doc.attempts) = 4
  /\ CitedIndices(1) = {}
  /\ CitedIndices(2) = {0}
  /\ CitedIndices(3) = {0, 1}
  /\ CitedIndices(4) = {0, 1, 2}

\* two results that agree but for the segment ids
SameButIds(a, b) ==
  /\ a.threw = b.threw
  /\ a.runCount = b.runCount
  /\ a.totalDuration = b.totalDuration
  /\ a.longestAttemptDuration = b.longestAttemptDuration
  /\ Len(a.runs) = Len(b.runs)
  /\ \A r \in 1..Len(a.runs) :
       /\ a.runs[r].id = b.runs[r].id
       /\ a.runs[r].totalDuration = b.runs[r].totalDuration
       /\ a.runs[r].isComplete = b.runs[r].isComplete
       /\ IndexOf(a, a.runs[r].deathSegment) = IndexOf(b, b.runs[r].deathSegment)
  /\ Len(a.segments) = Len(b.segments)
  /\ \A i \in 0..(Len(a.segments) - 1) : DeathsAt(a, i) = DeathsAt(b, i)

\* s[from..to] is one digit or more
AllDigits(s, from, to) == from <= to /\ \A i \in from..to : s[i] \in Digits

\* h:m:s.f with one or two digits each for an hour below 24, a minute and a
\* second below 60, and one to seven digits of fraction
MatchesClockPattern(s) ==
  \E a \in 1..2, b \in 1..2, c \in 1..2, d \in 1..7 :
    /\ Len(s) = a + b + c + d + 3
    /\ AllDigits(s, 1, a) /\ s[a + 1] = ":"
    /\ AllDigits(s, a + 2, a + b + 1) /\ s[a + b + 2] = ":"
    /\ AllDigits(s, a + b + 3, a + b + c + 2) /\ s[a + b + c + 3] = "."
    /\ AllDigits(s, a + b + c + 4, Len(s))
    /\ DigitsToNumber(SubSeq(s, 1, a)) <= 23
    /\ DigitsToNumber(SubSeq(s, a + 2, a + b + 1)) <= 59
    /\ DigitsToNumber(SubSeq(s, a + b + 3, a + b + c + 2)) <= 59

\* end - start of an attempt with both attributes, in milliseconds
SpanOf(attempt) == attempt.ended.at.v - attempt.started.at.v

\* s is D.HH:mm:ss.fffffff with d digits of days, an hour below 24, a minute
\* and a second below 60
IsDayClockToken(s, d) ==
  /\ Len(s) = d + 17
  /\ AllDigits(s, 1, d) /\ s[d + 1] = "."
  /\ AllDigits(s, d + 2, d + 3) /\ s[d + 4] = ":"
  /\ AllDigits(s, d + 5, d + 6) /\ s[d + 7] = ":"
  /\ AllDigits(s, d + 8, d + 9) /\ s[d + 10] = "."
  /\ AllDigits(s, d + 11, d + 17)
  /\ DigitsToNumber(SubSeq(s, d + 2, d + 3)) <= 23
  /\ DigitsToNumber(SubSeq(s, d + 5, d + 6)) <= 59
  /\ DigitsToNumber(SubSeq(s, d + 8, d + 9)) <= 59

\* D * 86400000 and the clock part of such a text, in milliseconds
DayClockTokenMs(s, d) ==
  DigitsToNumber(SubSeq(s, 1, d)) * 86400000
  + DigitsToNumber(SubSeq(s, d + 2, d + 3)) * 3600000
  + DigitsToNumber(SubSeq(s, d + 5, d + 6)) * 60000
  + DigitsToNumber(SubSeq(s, d + 8, d + 9)) * 1000
  + DigitsToNumber(SubSeq(s, d + 11, d + 13))

\* the text 1.02:00:00.0000000
OneDayTwoHours == <<"1", ".">> \o T("0", "2", "0", "0", "0", "0") \o FractionPad

\* the ids of the Attempt nodes of the document
AttemptIds == {doc.attempts[a].id : a \in 1..Len(doc.attempts)}

\* the entries of a history that cite an attempt of the document
CitingAttempts(hist) == SelectSeq(hist, LAMBDA entry : entry.id \in AttemptIds)

\* the document without the entries that cite no attempt of the document
WithoutStrayEntries ==
  [doc EXCEPT !.segments =
     [i \in 1..Len(doc.segments) |->
        [doc.segments[i] EXCEPT !.hist = CitingAttempts(doc.segments[i].hist)]]]

\* some history of the document cites an id that no attempt has
HasStrayEntry ==
  \E i \in 1..Len(doc.segments) : \E e \in 1..Len(doc.segments[i].hist) :
    doc.segments[i].hist[e].id \notin AttemptIds

\* the percentile's segment index in the entries calculatePercentiles returned
PercentileIndex(target) == IndexOf(PercentileData, Get(pct.entries, target).segment)

----------------------------------------------------------------------------
(* The claims *)

\* C1: in every result, each attempt is complete or has a death segment, and
\* never both.
C1_CompleteXorDeath ==
  \A k \in Returned : \A run \in RunsOf(outs[k]) :
    run.isComplete # (run.deathSegment # NoId)

\* C2 as stated: the last-reached segment of an attempt is the segment of
\* greatest index among those with a time element for it, absent when there is
\* none, and the attempt is complete exactly when that segment is the terminal
\* one; an entry without a time element does not count.
C2_LastReachedAmongTimed ==
  \A k \in Returned : \A run \in RunsOf(outs[k]) :
    /\ IndexOf(outs[k], run.lastRecordedSegment) = Greatest(TimedIndices(run.id))
    /\ run.isComplete <=> (TimedIndices(run.id) # {}
                           /\ Greatest(TimedIndices(run.id)) = TerminalIndex)

\* C2 amended: the last-reached segment of an attempt is the segment of
\* greatest index among those whose history has an entry citing the attempt,
\* with or without a time element, absent when there is none, and the attempt
\* is complete exactly when that segment is the terminal one.
C2_LastReachedAmongCited ==
  \A k \in Returned : \A run \in RunsOf(outs[k]) :
    /\ IndexOf(outs[k], run.lastRecordedSegment) = Greatest(CitedIndices(run.id))
    /\ (run.lastRecordedSegment = NoId) <=> (CitedIndices(run.id) = {})
    /\ run.isComplete <=> (CitedIndices(run.id) # {}
                           /\ Greatest(CitedIndices(run.id)) = TerminalIndex)

\* an attempt whose only entry, in the terminal segment, has no time element
\* has been given that segment as its last-reached one
C2_Witness ==
  \E k \in Returned : \E run \in RunsOf(outs[k]) :
    /\ TimedIndices(run.id) = {}
    /\ CitedIndices(run.id) # {}
    /\ run.isComplete
    /\ Len(doc.segments) >= 2

\* C3: the death segment is absent for a complete attempt, the segment of
\* index 0 for an attempt without any segment time, and otherwise the segment
\* whose id is the nextSegmentId of the attempt's last-reached segment.
C3_DeathSegment ==
  \A k \in Returned : \A run \in RunsOf(outs[k]) :
    IF run.isComplete THEN run.deathSegment = NoId
    ELSE IF run.segmentTimes = <<>>
         THEN /\ HasKey(outs[k].segments, run.deathSegment)
              /\ Get(outs[k].segments, run.deathSegment).index = 0
         ELSE /\ HasKey(outs[k].segments, run.lastRecordedSegment)
              /\ HasKey(outs[k].segments, run.deathSegment)
              /\ run.deathSegment =
                   Get(outs[k].segments, run.lastRecordedSegment).nextSegmentId

\* C4: the totalDeaths of all segments add up to the number of attempts less
\* the number of complete attempts.
C4_DeathsAddUp ==
  \A k \in Returned :
    SumOfDeaths(outs[k].segments) = outs[k].runCount - Cardinality(CompleteRuns(outs[k]))

\* C5: the personal best is a complete attempt of least totalDuration among
\* the complete attempts, and null when no attempt is complete.
C5_PersonalBestComplete ==
  \A k \in Returned :
    LET data == outs[k] IN
    IF CompleteRuns(data) = {} THEN data.personalBest = NoRun
    ELSE /\ HasKey(data.runs, data.personalBest)
         /\ Get(data.runs, data.personalBest).isComplete
         /\ \A run \in CompleteRuns(data) :
              ~JsLess(run.totalDuration, Get(data.runs, data.personalBest).totalDuration)

\* C6: for each target, calculatePercentiles maps it to the first segment in
\* index order at which accumulated totalDeaths / runCount is strictly greater
\* than the target, and gives it no entry when no segment is.
C6_FirstSegmentExceeding ==
  pct.done =>
    \A target \in Targets :
      LET over == ExceedingIndices(PercentileData, target) IN
      IF over = {} THEN ~HasKey(pct.entries, target)
      ELSE /\ HasKey(pct.entries, target)
           /\ IndexOf(PercentileData, Get(pct.entries, target).segment) = Least(over)

\* 0.5 and 0.9 have been mapped to different segments and 0.95 to none
C6_Witness ==
  /\ pct.done
  /\ HasKey(pct.entries, 50) /\ HasKey(pct.entries, 90) /\ ~HasKey(pct.entries, 95)
  /\ IndexOf(PercentileData, Get(pct.entries, 50).segment)
       < IndexOf(PercentileData, Get(pct.entries, 90).segment)

\* C7: on segments A, B, C and attempts 1..4 with entries for none, A, A and B,
\* A, B and C, attempts 1, 2, 3 die at A, B, C, attempt 4 is complete without a
\* death segment, A, B, C have one death each, one attempt is complete, and
\* calculatePercentiles maps 0.5 to C.
C7_Scenario ==
  IsScenario =>
    /\ \A k \in Returned :
         LET data == outs[k] IN
         /\ IndexOf(data, Get(data.runs, 1).deathSegment) = 0
         /\ IndexOf(data, Get(data.runs, 2).deathSegment) = 1
         /\ IndexOf(data, Get(data.runs, 3).deathSegment) = 2
         /\ Get(data.runs, 4).isComplete
         /\ Get(data.runs, 4).deathSegment = NoId
         /\ \A i \in 0..2 : DeathsAt(data, i) = 1
         /\ Cardinality(CompleteRuns(data)) = 1
    /\ pct.done =>
         /\ HasKey(pct.entries, 50)
         /\ IndexOf(PercentileData, Get(pct.entries, 50).segment) = 2

\* the scenario's document has been parsed and its percentiles calculated
C7_Witness == IsScenario /\ pct.done /\ Returned # {}

\* C8: a second parseLivesplitDocument on the same document object returns what
\* the first returned, but for the segment ids.
C8_SecondRunAgrees ==
  \A k \in 1..Len(outs) : SameButIds(outs[1], outs[k])

\* two results with different segment ids, an attributed death and a complete
\* attempt
C8_Witness ==
  /\ Len(outs) >= 2
  /\ Len(outs[1].segments) >= 2
  /\ outs[1].segments[1].id # outs[2].segments[1].id
  /\ \E seg \in SegmentsOf(outs[2]) : seg.totalDeaths > 0
  /\ CompleteRuns(outs[2]) # {}

\* C9 as stated: parseLivesplitDocument leaves the document as it was.
C9_DocumentUnchanged == [][doc' = doc]_vars

\* C9 amended: parseLivesplitDocument leaves every attempt node and the content
\* of every segment node as it was, and writes one attribute, 'uuid', on each
\* segment node: the id of that segment in the result.
C9_OnlyUuidWritten ==
  [][/\ doc'.attempts = doc.attempts
     /\ Len(doc'.segments) = Len(doc.segments)
     /\ \A i \in 1..Len(doc.segments) : doc'.segments[i].hist = doc.segments[i].hist
     /\ outs' # outs =>
          \A i \in 1..Len(doc.segments) :
            LET data == outs'[Len(outs')] IN
            /\ HasKey(data.segments, doc'.segments[i].uuid)
            /\ Get(data.segments, doc'.segments[i].uuid).index = i - 1]_vars

\* a document of two segments or more has been parsed and its nodes carry ids
C9_Witness ==
  /\ outs # <<>>
  /\ Len(doc.segments) >= 2
  /\ \A i \in 1..Len(doc.segments) : doc.segments[i].uuid # NoId

C11_PauseWithDays ==
  (durOut.done /\ att.ended.present /\ att.pause.present) =>
    LET token == Trim(att.pause.text) IN
    /\ \A d \in 1..Len(token) :
         IsDayClockToken(token, d) =>
           /\ ~durOut.threw
           /\ durOut.value = Num(SpanOf(att) - DayClockTokenMs(token, d))
    /\ (token = OneDayTwoHours /\ SpanOf(att) = 3 * 3600000) =>
         durOut.value = Num(0 - 82800000)

\* the duration of the 3 hour attempt paused for 1.02:00:00.0000000 has been
\* calculated, and it is negative
C11_Witness ==
  /\ durOut.done
  /\ att.ended.present /\ att.pause.present
  /\ att.pause.text = OneDayTwoHours
  /\ SpanOf(att) = 3 * 3600000
  /\ IsNum(durOut.value) /\ durOut.value.v < 0

\* C12: for a document without attempts parseLivesplitDocument returns, without
\* raising, runCount 0, totalDuration 0 and no personal best; the average,
\* total over count, is NaN and no number; and the page comes to show its
\* results, not an error.
C12_ZeroAttempts ==
  doc.attempts = <<>> =>
    /\ \A k \in 1..Len(outs) :
         /\ ~outs[k].threw
         /\ outs[k].runCount = 0
         /\ outs[k].totalDuration = Num(0)
         /\ outs[k].personalBest = NoRun
         /\ JsFloorDiv(outs[k].totalDuration, outs[k].runCount) = NaN
    /\ page.state # "idle" => page.state = "results"

\* C13: the segments of every result form one chain in document order: the
\* i-th segment has index i - 1 and the id written on the i-th Segment node, the
\* ids are distinct, each segment but the last has the id of the next one as
\* its nextSegmentId, and exactly one segment, the one of highest index, has
\* isLastSegment, with no nextSegmentId.
C13_SingleChain ==
  \A k \in Returned :
    LET segs == outs[k].segments
        n == Len(segs)
    IN /\ n = Len(doc.segments)
       /\ \A i \in 1..n : segs[i].index = i - 1
       /\ \A i, j \in 1..n : segs[i].id = segs[j].id => i = j
       /\ \A i \in 1..n : segs[i].id # NoId
       /\ k = Len(outs) => \A i \in 1..n : doc.segments[i].uuid = segs[i].id
       /\ \A i \in 1..(n - 1) : segs[i].nextSegmentId = segs[i + 1].id
       /\ {i \in 1..n : segs[i].isLastSegment} = {n}
       /\ \A i \in 1..n : segs[i].isLastSegment => segs[i].nextSegmentId = NoId

\* C14: in every result each segment has 0 <= totalDeaths <= runCount, and the
\* totalDeaths of all segments add up to runCount at most.
C14_DeathsBounded ==
  \A k \in Returned :
    /\ \A seg \in SegmentsOf(outs[k]) :
         seg.totalDeaths >= 0 /\ seg.totalDeaths <= outs[k].runCount
    /\ SumOfDeaths(outs[k].segments) <= outs[k].runCount

\* a result of two attempts or more in which one segment has the deaths of
\* all of them
C14_Witness ==
  \E k \in Returned :
    /\ outs[k].runCount >= 2
    /\ Len(outs[k].segments) >= 2
    /\ \E seg \in SegmentsOf(outs[k]) : seg.totalDeaths = outs[k].runCount

\* C15: in the result of calculatePercentiles the segment index of a target
\* does not decrease as the target grows over 0.5, 0.75, 0.9, 0.95, and a
\* target without a segment is followed by no target with one.
C15_PercentilesNonDecreasing ==
  pct.done =>
    \A low, high \in Targets :
      (low < high /\ HasKey(pct.entries, high)) =>
        /\ HasKey(pct.entries, low)
        /\ PercentileIndex(low) <= PercentileIndex(high)

\* 0.5 and 0.75 have been mapped to segments of increasing index and 0.9 to
\* none
C15_Witness ==
  /\ pct.done
  /\ HasKey(pct.entries, 50) /\ HasKey(pct.entries, 75) /\ ~HasKey(pct.entries, 90)
  /\ PercentileIndex(50) < PercentileIndex(75)

\* C16: for every pause token parseTimestamp gives a number for, with or
\* without a fraction and with or without a day prefix, calculateAttemptDuration
\* returns (end - start) less parseTimestamp of the token, a number.
C16_SubtractsParsedPause ==
  (durOut.done /\ tsOut.done /\ att.ended.present /\ att.pause.present
     /\ IsNum(tsOut.value)) =>
    durOut.value = Num(SpanOf(att) - tsOut.value.v)

\* C17: an entry citing an id that no attempt has is ignored without error:
\* the runs of the result are the attempts of the document, one each, and the
\* runs (segment times, completion, death segment) and the segments
\* (totalDeaths) are those parseLivesplitDocument returns for the document
\* without such entries.
C17_StrayEntriesIgnored ==
  \A k \in 1..Len(outs) :
    LET data == outs[k]
        other == ParseLivesplitDocument(WithoutStrayEntries,
                                        (k - 1) * Len(doc.segments)).data
    IN /\ ~data.threw
       /\ {run.id : run \in RunsOf(data)} = AttemptIds
       /\ data.runCount = Len(doc.attempts)
       /\ data.runs = other.runs
       /\ data.segments = other.segments

\* a document in which a history cites an attempt it has and an id it has
\* not has been parsed, with a death attributed
C17_Witness ==
  /\ Returned # {}
  /\ HasStrayEntry
  /\ \E id \in AttemptIds : CitedIndices(id) # {}
  /\ \E seg \in SegmentsOf(outs[1]) : seg.totalDeaths > 0

\* C18: the deathsBeforeFirstSplit the page shows, the attempts less the
\* deaths counted per split less the completed attempts, is at least 0 and at
\* most the number of attempts, whatever ids the histories cite.
C18_DeathsBeforeFirstSplitInRange ==
  page.state = "results" =>
    /\ page.results.deathsBeforeFirstSplit >= 0
    /\ page.results.deathsBeforeFirstSplit <= page.results.attemptCount

====
